---- MODULE Spec2Model ----
(***************************************************************************)
(* ChatParrotLink, the custom chat model of                                *)
(* docs/docs/how_to/custom_chat_model.ipynb: a chat model that echoes the  *)
(* first parrot_buffer_length characters of the last message of the        *)
(* prompt, as one message (_generate) or as a stream of chunks (_stream).  *)
(*                                                                         *)
(* A string is a sequence of characters; a message is its content; a       *)
(* prompt is a non-empty sequence of messages.                             *)
(***************************************************************************)
EXTENDS Integers, Sequences, FiniteSets, TLC

\* ------------------------------------------------------------------ bounds
MaxLen == 2
MaxMsgs == 2
MaxBatch == 2
Workers == 2

Chars == {"a", "b"}
RunIds == {"run-1", "run-2"}

Strings == UNION {[1..k -> Chars] : k \in 0..MaxLen}
Prompts == UNION {[1..k -> Strings] : k \in 1..MaxMsgs}
\* parrot_buffer_length is a Python int: below zero, zero, inside and beyond
\* the longest content
BufferLengths == (0 - 1)..(MaxLen + 1)

\* ---------------------------------------------------------- Python values
Min(a, b) == IF a < b THEN a ELSE b
Max(a, b) == IF a > b THEN a ELSE b

\* s[:n] of a Python string: the first n items for n >= 0 (all of s when it
\* is shorter), all but the last -n items for n < 0
PySlice(s, n) ==
    IF n >= 0 THEN SubSeq(s, 1, Min(n, Len(s)))
    ELSE SubSeq(s, 1, Max(Len(s) + n, 0))

\* None, as the value of an Optional field
None == [none |-> TRUE]

\* the local `token` of _stream before the for loop has bound it
Unbound == <<"unbound">>

\* sum(len(message.content) for message in messages)
RECURSIVE SumLen(_)
SumLen(msgs) ==
    IF msgs = <<>> THEN 0 ELSE Len(Head(msgs)) + SumLen(Tail(msgs))

\* messages[-1]
Last(msgs) == msgs[Len(msgs)]

\* UsageMetadata
Usage(inp, out, tot) ==
    [input_tokens |-> inp, output_tokens |-> out, total_tokens |-> tot]

\* a response_metadata dict, as its set of <<key, value>> items
GenerateResponseMetadata(name) ==
    {<<"time_in_seconds", 3>>, <<"model_name", name>>}
StreamResponseMetadata(name) ==
    {<<"time_in_sec", 3>>, <<"model_name", name>>}

\* AIMessage / AIMessageChunk
Message(content, usage, meta) ==
    [content |-> content, usage_metadata |-> usage, response_metadata |-> meta]

\* a List[str] of stop strings
StopList(ws) == [strings |-> ws]

\* the stop argument of _generate and _stream: None, or a list of stop strings
StopLists ==
    {None} \cup {StopList(<< w >>) : w \in {s \in Strings : Len(s) = 1}}

\* ------------------------------------------------------------- _generate
\* mutant: the prefix of the first message
GenerateTokensOfFirst(msgs, n) == PySlice(Head(msgs), n)

\* tokens = last_message.content[: self.parrot_buffer_length]
GenerateTokens(msgs, n) == PySlice(Last(msgs), n)

\* mutant: the last message alone is counted
GenerateCtInputTokensOfLast(msgs) == Len(Last(msgs))

\* ct_input_tokens = sum(len(message.content) for message in messages)
GenerateCtInputTokens(msgs) == SumLen(msgs)

GenerateUsage(msgs, n) ==
    LET ct_input_tokens == GenerateCtInputTokens(msgs)
        ct_output_tokens == Len(GenerateTokens(msgs, n))
    IN  Usage(ct_input_tokens, ct_output_tokens,
              ct_input_tokens + ct_output_tokens)

\* the ChatResult: its list of generations, each the AIMessage it holds
GenerateResult(msgs, n, name) ==
    << Message(GenerateTokens(msgs, n), GenerateUsage(msgs, n),
               GenerateResponseMetadata(name)) >>

\* --------------------------------------------------------------- _stream
\* mutant: the content is not cut
StreamTokensUncut(msgs, n) == Last(msgs)

\* tokens = str(last_message.content[: self.parrot_buffer_length])
StreamTokens(msgs, n) == PySlice(Last(msgs), n)

\* ct_input_tokens = sum(len(message.content) for message in messages)
StreamCtInputTokens(msgs) == SumLen(msgs)

\* the chunk of one loop iteration
TokenChunk(tok, ct) == Message(tok, Usage(ct, 1, ct + 1), {})

\* the chunk after the loop
FinalChunk(name) == Message(<<>>, None, StreamResponseMetadata(name))

\* ---------------------------------------------------- _identifying_params
\* the dict returned, as its set of <<key, value>> items
IdentifyingParams(name) == {<<"model_name", name>>}

\* ------------------------------------------------- the base chat model
\* What ChatParrotLink inherits from BaseChatModel and the message types;
\* the notebook shows their use and their output only.

\* a prompt given as a string becomes one human message
ConvertInput(prompt) == << prompt >>

\* add_usage: field by field; a missing usage adds nothing
AddUsage(u, v) ==
    IF u = None THEN v
    ELSE IF v = None THEN u
    ELSE Usage(u.input_tokens + v.input_tokens,
               u.output_tokens + v.output_tokens,
               u.total_tokens + v.total_tokens)

\* mutant: the right content first
AddChunksSwapped(l, r) ==
    [content |-> r.content \o l.content,
     usage_metadata |-> AddUsage(l.usage_metadata, r.usage_metadata),
     response_metadata |-> l.response_metadata \cup r.response_metadata]

\* AIMessageChunk.__add__
AddChunks(l, r) ==
    Message(l.content \o r.content,
            AddUsage(l.usage_metadata, r.usage_metadata),
            l.response_metadata \cup r.response_metadata)

\* the chunks of a stream, added from left to right
RECURSIVE SumChunksFrom(_, _)
SumChunksFrom(acc, chunks) ==
    IF chunks = <<>> THEN acc
    ELSE SumChunksFrom(AddChunks(acc, Head(chunks)), Tail(chunks))

SumChunks(chunks) == SumChunksFrom(Head(chunks), Tail(chunks))

\* the run_id of a call that is no run
NoRun == "no-run"

\* the events of astream_events
StartEvent(rid, msgs) ==
    [event |-> "on_chat_model_start", run_id |-> rid, data |-> msgs]
StreamEvent(rid, c) ==
    [event |-> "on_chat_model_stream", run_id |-> rid, data |-> c]
\* mutant: the end event reports the last chunk alone
EndEventOfLast(rid, chunks) ==
    [event |-> "on_chat_model_end", run_id |-> rid,
     data |-> chunks[Len(chunks)]]

EndEvent(rid, chunks) ==
    [event |-> "on_chat_model_end", run_id |-> rid, data |-> SumChunks(chunks)]

\* a task of batch: one input, run by a thread of the pool
QueuedTask(prompt) ==
    [state |-> "queued", messages |-> ConvertInput(prompt), output |-> None]
Running(ts) == Cardinality({i \in DOMAIN ts : ts[i].state = "running"})

\* mutant: the outputs in the reverse order
CollectOutputsReversed(ts) ==
    [i \in DOMAIN ts |-> ts[Len(ts) + 1 - i].output]

\* the outputs of the finished tasks, in the order of the inputs
CollectOutputs(ts) == [i \in DOMAIN ts |-> ts[i].output]

\* mutant: the chunk handed over is delivered twice
DeliverTwice(got, handed) == got \o handed \o handed

\* the consumer's chunks after it receives the one handed over
Deliver(got, handed) == Append(got, Head(handed))

BatchInputs == UNION {[1..k -> Strings] : k \in 1..MaxBatch}

VARIABLES
    parrot_buffer_length,  \* field of the model
    model_name,            \* field of the model
    temperature,           \* field of the model
    max_tokens,            \* field of the model
    timeout,               \* field of the model
    self_stop,             \* field of the model: stop
    max_retries,           \* field of the model
    call,                  \* the method called
    messages,              \* its prompt
    stop,                  \* its stop argument
    run_manager,           \* whether a run_manager was passed to _stream
    pc,                    \* where the call is
    result,                \* generations returned by _generate
    tokens,                \* _stream local
    ct_input_tokens,       \* _stream local
    idx,                   \* _stream: characters of tokens the loop has taken
    token,                 \* _stream local: the loop variable
    chunk,                 \* _stream local
    callbacks,             \* on_llm_new_token calls made, in order
    yielded,               \* chunks yielded by _stream, in order
    pending,               \* astream: the chunk the executor thread hands over
    delivered,             \* astream: chunks the async consumer has received
    run_id,                \* astream_events: the id of the run
    events,                \* astream_events: events emitted, in order
    inputs,                \* batch: the prompts
    tasks,                 \* batch: one task per prompt
    outputs,               \* batch: the list returned
    operands,              \* chunk addition: the chunks to add
    sums,                  \* chunk addition: their sums
    memo                   \* what an observer of the calls has noted

vars == << parrot_buffer_length, model_name, temperature, max_tokens, timeout,
           self_stop, max_retries, call, messages, stop,
           run_manager, pc,
           result, tokens, ct_input_tokens, idx, token, chunk, callbacks,
           yielded, pending, delivered, run_id, events, inputs, tasks,
           outputs, operands, sums, memo >>

fields == << parrot_buffer_length, model_name, temperature, max_tokens, timeout,
            self_stop, max_retries >>
locals == << tokens, ct_input_tokens, idx, token, chunk >>
async == << pending, delivered, run_id, events >>
batch == << inputs, tasks, outputs >>
addition == << operands, sums >>
\* all of the program, without the observer's notes
program == << fields, call, messages, stop, run_manager, pc, result, locals,
             callbacks, yielded, async, batch, addition >>

AsyncCalls == {"astream", "astream_events"}
StreamCalls == {"_stream"} \cup AsyncCalls

Idle == pc = "idle"
Finished == pc \in {"done", "raised"}

\* no call in progress and nothing left of the last one
Fresh ==
    /\ call = "none"
    /\ messages = <<>>
    /\ stop = None
    /\ run_manager = FALSE
    /\ pc = "idle"
    /\ result = <<>>
    /\ tokens = <<>>
    /\ ct_input_tokens = 0
    /\ idx = 0
    /\ token = Unbound
    /\ chunk = None
    /\ callbacks = <<>>
    /\ yielded = <<>>
    /\ pending = <<>>
    /\ delivered = <<>>
    /\ run_id = NoRun
    /\ events = <<>>
    /\ inputs = <<>>
    /\ tasks = <<>>
    /\ outputs = <<>>

\* ChatParrotLink(parrot_buffer_length=..., model=...): the other fields
\* have their defaults
Constructed ==
    /\ parrot_buffer_length \in BufferLengths
    /\ model_name = "bird-brain-001"
    /\ temperature = None
    /\ max_tokens = None
    /\ timeout = None
    /\ self_stop = None
    /\ max_retries = 2

Init ==
    /\ Constructed
    /\ Fresh
    /\ operands = <<>>
    /\ sums = <<>>
    /\ memo = None

\* mutant: a parrot that tires, its buffer one shorter after each _generate
GenerateShorteningBuffer ==
    /\ Idle
    /\ \E msgs \in Prompts, st \in StopLists :
        /\ messages' = msgs
        /\ stop' = st
        /\ result' = GenerateResult(msgs, parrot_buffer_length, model_name)
    /\ call' = "_generate"
    /\ pc' = "done"
    /\ parrot_buffer_length' = Max(parrot_buffer_length - 1, 0)
    /\ UNCHANGED << model_name, temperature, max_tokens, timeout, self_stop,
                    max_retries, addition, memo, run_manager, locals, callbacks,
                    yielded, async, batch >>

\* _generate(messages)
Generate ==
    /\ Idle
    /\ \E msgs \in Prompts, st \in StopLists :
        /\ messages' = msgs
        /\ stop' = st
        /\ result' = GenerateResult(msgs, parrot_buffer_length, model_name)
    /\ call' = "_generate"
    /\ pc' = "done"
    /\ UNCHANGED << fields, addition, memo, run_manager, locals, callbacks, yielded, async,
                    batch >>

\* the body of _stream up to the for loop
StreamEnter(msgs) ==
    /\ messages' = msgs
    /\ tokens' = StreamTokens(msgs, parrot_buffer_length)
    /\ ct_input_tokens' = StreamCtInputTokens(msgs)
    /\ pc' = "for"
    /\ UNCHANGED << fields, addition, memo, result, idx, token, chunk, callbacks, yielded,
                    pending, delivered, batch >>

\* _stream(messages, run_manager=...), called directly
StreamCall ==
    /\ Idle
    /\ call' = "_stream"
    /\ \E msgs \in Prompts, st \in StopLists, rm \in BOOLEAN :
        /\ stop' = st
        /\ run_manager' = rm
        /\ StreamEnter(msgs)
    /\ UNCHANGED << run_id, events >>

\* for token in tokens: the next character, its usage and its chunk
ForNext ==
    /\ pc = "for"
    /\ idx < Len(tokens)
    /\ idx' = idx + 1
    /\ token' = << tokens[idx + 1] >>
    /\ chunk' = TokenChunk(token', ct_input_tokens)
    /\ ct_input_tokens' = 0
    /\ pc' = IF run_manager THEN "on_token" ELSE "yield"
    /\ UNCHANGED << fields, addition, memo, call, messages, stop, run_manager, result, tokens,
                    callbacks, yielded, async, batch >>

\* run_manager.on_llm_new_token(token, chunk=chunk), in the loop
OnLlmNewToken ==
    /\ pc = "on_token"
    /\ callbacks' = Append(callbacks, [token |-> token, chunk |-> chunk])
    /\ pc' = "yield"
    /\ UNCHANGED << fields, addition, memo, call, messages, stop, run_manager, result, locals,
                    yielded, async, batch >>

\* a yield: to the caller's loop, or to the executor thread of astream, which
\* takes the next chunk once the consumer has the one before
HandOver ==
    IF call \in AsyncCalls
    THEN pending = <<>> /\ pending' = << chunk >>
    ELSE UNCHANGED pending

\* yield chunk, in the loop
Yield ==
    /\ pc = "yield"
    /\ HandOver
    /\ yielded' = Append(yielded, chunk)
    /\ pc' = "for"
    /\ UNCHANGED << fields, addition, memo, call, messages, stop, run_manager, result, locals,
                    callbacks, delivered, run_id, events, batch >>

\* the loop is over: the chunk with the response metadata
ForExit ==
    /\ pc = "for"
    /\ idx = Len(tokens)
    /\ chunk' = FinalChunk(model_name)
    /\ pc' = IF run_manager THEN "final_on_token" ELSE "final_yield"
    /\ UNCHANGED << fields, addition, memo, call, messages, stop, run_manager, result, tokens,
                    ct_input_tokens, idx, token, callbacks, yielded, async,
                    batch >>

\* run_manager.on_llm_new_token(token, chunk=chunk), after the loop: token
\* is the loop variable, which no iteration has bound when tokens is empty
FinalOnLlmNewToken ==
    /\ pc = "final_on_token"
    /\ IF token = Unbound
       THEN /\ pc' = "raised"      \* UnboundLocalError
            /\ UNCHANGED callbacks
       ELSE /\ callbacks' = Append(callbacks, [token |-> token, chunk |-> chunk])
            /\ pc' = "final_yield"
    /\ UNCHANGED << fields, addition, memo, call, messages, stop, run_manager, result, locals,
                    yielded, async, batch >>

\* yield chunk, after the loop
FinalYield ==
    /\ pc = "final_yield"
    /\ HandOver
    /\ yielded' = Append(yielded, chunk)
    /\ pc' = "returned"
    /\ UNCHANGED << fields, addition, memo, call, messages, stop, run_manager, result, locals,
                    callbacks, delivered, run_id, events, batch >>

\* astream(messages): no _astream is defined, so _stream runs in a thread of
\* the executor, without a run_manager of its own (the callbacks are the
\* base class's)
AStreamCall ==
    /\ Idle
    /\ call' = "astream"
    /\ stop' = None
    /\ run_manager' = FALSE
    /\ \E msgs \in Prompts : StreamEnter(msgs)
    /\ UNCHANGED << run_id, events >>

\* astream_events(messages): astream, each step reported as an event
AStreamEventsCall ==
    /\ Idle
    /\ call' = "astream_events"
    /\ stop' = None
    /\ run_manager' = FALSE
    /\ \E msgs \in Prompts, rid \in RunIds :
        /\ run_id' = rid
        /\ events' = << StartEvent(rid, msgs) >>
        /\ StreamEnter(msgs)

\* the async consumer receives the chunk handed over
Receive ==
    /\ call \in AsyncCalls
    /\ pending # <<>>
    /\ delivered' = Deliver(delivered, pending)
    /\ pending' = <<>>
    /\ events' = IF call = "astream_events"
                 THEN Append(events, StreamEvent(run_id, Head(pending)))
                 ELSE events
    /\ UNCHANGED << fields, addition, memo, call, messages, stop, run_manager, pc, result, locals,
                    callbacks, yielded, run_id, batch >>

\* the generator has returned and its last chunk is with the consumer: the
\* iteration ends
StreamEnd ==
    /\ pc = "returned"
    /\ pending = <<>>
    /\ pc' = "done"
    /\ events' = IF call = "astream_events"
                 THEN Append(events, EndEvent(run_id, delivered))
                 ELSE events
    /\ UNCHANGED << fields, addition, memo, call, messages, stop, run_manager, result, locals,
                    callbacks, yielded, pending, delivered, run_id, batch >>

\* batch(prompts): one task per prompt, given to the thread pool
BatchCall ==
    /\ Idle
    /\ call' = "batch"
    /\ pc' = "batch"
    /\ \E ins \in BatchInputs :
        /\ inputs' = ins
        /\ tasks' = [i \in 1..Len(ins) |-> QueuedTask(ins[i])]
    /\ UNCHANGED << fields, addition, memo, messages, stop, run_manager, result, locals,
                    callbacks,
                    yielded, async, outputs >>

\* a free thread of the pool takes a queued task
TaskStart(i) ==
    /\ pc = "batch"
    /\ tasks[i].state = "queued"
    /\ Running(tasks) < Workers
    /\ tasks' = [tasks EXCEPT ![i].state = "running"]
    /\ UNCHANGED << fields, addition, memo, call, messages, stop, run_manager, pc, result, locals,
                    callbacks, yielded, async, inputs, outputs >>

\* the thread runs _generate on the task's input
TaskRun(i) ==
    /\ pc = "batch"
    /\ tasks[i].state = "running"
    /\ tasks' = [tasks EXCEPT
                    ![i].state = "finished",
                    ![i].output = GenerateResult(tasks[i].messages,
                                                 parrot_buffer_length,
                                                 model_name)[1]]
    /\ UNCHANGED << fields, addition, memo, call, messages, stop, run_manager, pc, result, locals,
                    callbacks, yielded, async, inputs, outputs >>

\* every task has finished: the outputs, in the order of the inputs
BatchReturn ==
    /\ pc = "batch"
    /\ \A i \in DOMAIN tasks : tasks[i].state = "finished"
    /\ outputs' = CollectOutputs(tasks)
    /\ pc' = "done"
    /\ UNCHANGED << fields, addition, memo, call, messages, stop, run_manager, result, locals,
                    callbacks, yielded, async, inputs, tasks >>

\* the caller has the outcome of the call; the next call starts afresh
Return ==
    /\ Finished
    /\ call' = "none"
    /\ messages' = <<>>
    /\ stop' = None
    /\ run_manager' = FALSE
    /\ pc' = "idle"
    /\ result' = <<>>
    /\ tokens' = <<>>
    /\ ct_input_tokens' = 0
    /\ idx' = 0
    /\ token' = Unbound
    /\ chunk' = None
    /\ callbacks' = <<>>
    /\ yielded' = <<>>
    /\ pending' = <<>>
    /\ delivered' = <<>>
    /\ run_id' = NoRun
    /\ events' = <<>>
    /\ inputs' = <<>>
    /\ tasks' = <<>>
    /\ outputs' = <<>>
    /\ UNCHANGED << fields, addition, memo >>

\* ---------------------------------------------------------- chunk addition
\* chunks as a stream can hold them: with and without usage and metadata
Chunks ==
    { Message(c, u, m) : c \in Strings, u \in {None, Usage(1, 1, 2)},
                         m \in {{}, StreamResponseMetadata("bird-brain-001")} }

AddInit ==
    /\ Constructed
    /\ parrot_buffer_length = 0
    /\ Fresh
    /\ operands \in [1..3 -> Chunks]
    /\ sums = <<>>
    /\ memo = None

\* (a + b) + c and a + (b + c)
AddThree ==
    /\ sums = <<>>
    /\ sums' = << AddChunks(AddChunks(operands[1], operands[2]), operands[3]),
                  AddChunks(operands[1], AddChunks(operands[2], operands[3])) >>
    /\ UNCHANGED << fields, memo, call, messages, stop, run_manager, pc, result,
                    locals, callbacks, yielded, async, batch, operands >>

AddNext == AddThree

SpecAdd == AddInit /\ [][AddNext]_vars

Next ==
    \/ Generate
    \/ StreamCall
    \/ ForNext
    \/ OnLlmNewToken
    \/ Yield
    \/ ForExit
    \/ FinalOnLlmNewToken
    \/ FinalYield
    \/ AStreamCall
    \/ AStreamEventsCall
    \/ Receive
    \/ StreamEnd
    \/ BatchCall
    \/ \E i \in DOMAIN tasks : TaskStart(i)
    \/ \E i \in DOMAIN tasks : TaskRun(i)
    \/ BatchReturn
    \/ Return

Spec == Init /\ [][Next]_vars

\* ---------------------------------------------- the same call, made again
\* the input a caller repeats: [HumanMessage("b"), HumanMessage("ab")]
Probe == << << "b" >>, << "a", "b" >> >>

\* a call on the probe has finished normally
ProbeDone ==
    /\ call \in {"_generate", "_stream"}
    /\ pc = "done"
    /\ messages = Probe

\* the content and the usage metadata the finished call has returned
Returned ==
    IF call = "_generate"
    THEN [content |-> result[1].content, usage |-> result[1].usage_metadata]
    ELSE LET sum == SumChunks(yielded)
         IN  [content |-> sum.content, usage |-> sum.usage_metadata]

\* the caller keeps what a call on the probe returned, and the fields the
\* model had then
Remember ==
    /\ memo = None
    /\ ProbeDone
    /\ memo' = [call |-> call, fields |-> fields, messages |-> messages,
                returned |-> Returned, between |-> FALSE]
    /\ UNCHANGED program

\* another kind of call has finished since
NoteCallBetween ==
    /\ memo # None
    /\ ~memo.between
    /\ Finished
    /\ call # memo.call
    /\ memo' = [memo EXCEPT !.between = TRUE]
    /\ UNCHANGED program

\* invoke, stream and batch in any order and number, and a caller who
\* compares
RepeatNext ==
    \/ Generate
    \/ StreamCall
    \/ ForNext
    \/ OnLlmNewToken
    \/ Yield
    \/ ForExit
    \/ FinalOnLlmNewToken
    \/ FinalYield
    \/ StreamEnd
    \/ BatchCall
    \/ \E i \in DOMAIN tasks : TaskStart(i)
    \/ \E i \in DOMAIN tasks : TaskRun(i)
    \/ BatchReturn
    \/ Return
    \/ Remember
    \/ NoteCallBetween

SpecRepeat == Init /\ [][RepeatNext]_vars


\* ------------------------------------------------------------ properties
\* the first n characters of s: all of s when it has fewer, none for n <= 0
FirstN(s, n) == [i \in 1..Min(n, Len(s)) |-> s[i]]

\* the lengths of the first k messages added up
RECURSIVE LenUpTo(_, _)
LenUpTo(msgs, k) == IF k = 0 THEN 0 ELSE LenUpTo(msgs, k - 1) + Len(msgs[k])

\* the contents of a sequence of chunks, one after the other
RECURSIVE Concat(_)
Concat(chunks) ==
    IF chunks = <<>> THEN <<>> ELSE Head(chunks).content \o Concat(Tail(chunks))

\* the usage a chunk reports: nothing when it has no usage metadata
UsageOf(c) ==
    IF c.usage_metadata = None THEN Usage(0, 0, 0) ELSE c.usage_metadata

\* the usage of a sequence of chunks added up, field by field
RECURSIVE StreamedUsage(_)
StreamedUsage(chunks) ==
    IF chunks = <<>> THEN Usage(0, 0, 0)
    ELSE LET u == UsageOf(Head(chunks))
             v == StreamedUsage(Tail(chunks))
         IN  Usage(u.input_tokens + v.input_tokens,
                   u.output_tokens + v.output_tokens,
                   u.total_tokens + v.total_tokens)

Generated == call = "_generate" /\ pc = "done"
Streamed == call = "_stream" /\ Finished

\* C1, as claimed: for every parrot_buffer_length n, _generate returns exactly
\* one generation whose content is the first n characters of the content of
\* the last message (the whole content when it has fewer).
C1_EchoesFirstN_AnyLength ==
    Generated =>
        /\ Len(result) = 1
        /\ result[1].content = FirstN(Last(messages), parrot_buffer_length)

\* C1, amended: for every parrot_buffer_length n >= 0, _generate returns
\* exactly one generation whose content is the first n characters of the
\* content of the last message (the whole content when it has fewer); earlier
\* messages never contribute.
C1_EchoesFirstN ==
    (Generated /\ parrot_buffer_length >= 0) =>
        /\ Len(result) = 1
        /\ result[1].content = FirstN(Last(messages), parrot_buffer_length)

\* C1 witness: two different messages, the last one cut short
C1_Witness ==
    /\ Generated
    /\ Len(messages) = 2
    /\ messages[1] # messages[2]
    /\ parrot_buffer_length > 0
    /\ parrot_buffer_length < Len(Last(messages))
    /\ Len(result[1].content) = parrot_buffer_length

\* C2: the usage metadata of the message _generate returns has input_tokens
\* the sum of the content lengths of all input messages, output_tokens the
\* length of the echoed content, total_tokens their sum.
C2_GenerateUsage ==
    Generated =>
        LET u == result[1].usage_metadata
        IN  /\ u.input_tokens = LenUpTo(messages, Len(messages))
            /\ u.output_tokens = Len(result[1].content)
            /\ u.total_tokens = u.input_tokens + u.output_tokens

\* C2 witness: an earlier message that is not empty, and an echo that is not
C2_Witness ==
    /\ Generated
    /\ Len(messages) = 2
    /\ Len(messages[1]) > 0
    /\ result[1].usage_metadata.output_tokens > 0
    /\ result[1].usage_metadata.input_tokens > Len(Last(messages))

\* C3: the contents of the chunks _stream yields, concatenated in order, are
\* the content of the message _generate returns for the same input.
C3_StreamContentIsGenerateContent ==
    (call \in StreamCalls /\ Finished) =>
        Concat(yielded) =
            GenerateResult(messages, parrot_buffer_length, model_name)[1].content

\* C3 witness: a stream has ended whose characters are cut from a longer
\* last message
C3_Witness ==
    /\ Streamed
    /\ pc = "done"
    /\ Len(yielded) >= 2
    /\ Len(Concat(yielded)) >= 1
    /\ Len(Concat(yielded)) < Len(Last(messages))

\* the chunks stream yields for a prompt: one per character of the echoed
\* prefix, the first with the input count, then the metadata chunk
StreamOf(msgs, n, name) ==
    LET echoed == PySlice(Last(msgs), n)
        k == Len(echoed)
        counted(i) == IF i = 1 THEN LenUpTo(msgs, Len(msgs)) ELSE 0
    IN  [i \in 1..(k + 1) |->
            IF i <= k
            THEN Message(<< echoed[i] >>, Usage(counted(i), 1, counted(i) + 1), {})
            ELSE Message(<<>>, None, StreamResponseMetadata(name))]

\* C4, as claimed: _stream yields one chunk per character of the echoed
\* prefix, in order, then exactly one chunk with empty content that carries
\* the response metadata: k + 1 chunks for a prefix of length k, the metadata
\* chunk last, and nothing after it.
C4_YieldsPrefixThenMetadata ==
    /\ call = "_stream" =>
           Len(yielded) <= Len(GenerateTokens(messages, parrot_buffer_length)) + 1
    /\ Streamed =>
        LET echoed == GenerateTokens(messages, parrot_buffer_length)
            k == Len(echoed)
        IN  /\ Len(yielded) = k + 1
            /\ \A i \in 1..k : yielded[i].content = << echoed[i] >>
            /\ yielded[k + 1].content = <<>>
            /\ yielded[k + 1].response_metadata # {}

\* C5: batch returns one result per input, in the order of the inputs, and
\* the i-th result has the content and the usage metadata of invoke on the
\* i-th input alone, however the threads of the pool interleave.
C5_BatchIsInvokePerInput ==
    call = "batch" =>
        /\ \A i \in DOMAIN tasks :
               tasks[i].state = "finished" =>
                   LET alone == GenerateResult(ConvertInput(inputs[i]),
                                               parrot_buffer_length,
                                               model_name)[1]
                   IN  /\ tasks[i].output.content = alone.content
                       /\ tasks[i].output.usage_metadata = alone.usage_metadata
        /\ pc = "done" =>
               /\ Len(outputs) = Len(inputs)
               /\ \A i \in DOMAIN inputs :
                      LET alone == GenerateResult(ConvertInput(inputs[i]),
                                                  parrot_buffer_length,
                                                  model_name)[1]
                      IN  /\ outputs[i].content = alone.content
                          /\ outputs[i].usage_metadata = alone.usage_metadata

\* C5 witness: a batch of two inputs with different results has returned
C5_Witness ==
    /\ call = "batch"
    /\ pc = "done"
    /\ Len(outputs) = 2
    /\ outputs[1].content # outputs[2].content
    /\ outputs[1].usage_metadata # outputs[2].usage_metadata

C7_EventsOfARun ==
    call = "astream_events" =>
        /\ Len(events) >= 1
        /\ events[1] = StartEvent(run_id, messages)
        /\ \A i \in 1..Len(events) : events[i].run_id = run_id
        /\ \A i \in 2..Len(events) : events[i].event # "on_chat_model_start"
        /\ \A i \in 1..Len(delivered) :
               events[i + 1] = StreamEvent(run_id, yielded[i])
        /\ pc # "done" =>
               /\ Len(events) = Len(delivered) + 1
               /\ Len(delivered) <= Len(yielded)
        /\ pc = "done" =>
               /\ Len(events) = Len(yielded) + 2
               /\ events[Len(events)].event = "on_chat_model_end"
               /\ events[Len(events)].data.content = Concat(yielded)
               /\ UsageOf(events[Len(events)].data) = StreamedUsage(yielded)

\* C7 witness: a run of two character chunks has ended
C7_Witness ==
    /\ call = "astream_events"
    /\ pc = "done"
    /\ Len(events) = 5
    /\ events[5].event = "on_chat_model_end"
    /\ Len(events[5].data.content) = 2
    /\ events[2].data.content # events[3].data.content

\* the chunk with empty content and no metadata
EmptyChunk == Message(<<>>, None, {})

\* C8: adding two chunks gives the left content followed by the right one,
\* the addition is associative, the chunk with empty content and no metadata
\* is neutral for content, and the chunks of a sequence added from left to
\* right have the concatenation of their contents, in order.
C8_ChunksAdd ==
    sums # <<>> =>
        LET a == operands[1]
            b == operands[2]
            c == operands[3]
        IN  /\ AddChunks(a, b).content = a.content \o b.content
            /\ sums[1] = sums[2]
            /\ AddChunks(a, EmptyChunk).content = a.content
            /\ AddChunks(EmptyChunk, a).content = a.content
            /\ SumChunks(operands) = sums[1]
            /\ SumChunks(operands).content = Concat(operands)

\* C8 witness: three chunks with different contents have been added
C8_Witness ==
    /\ sums # <<>>
    /\ operands[1].content # <<>>
    /\ operands[2].content # <<>>
    /\ operands[1].content # operands[2].content
    /\ operands[3].content # operands[2].content
    /\ operands[1] # operands[3]
    /\ Len(sums[1].content) = 3

\* C9, as claimed: the usage metadata of the chunks _stream yields, added up
\* field by field, is the usage metadata _generate reports for the same
\* input, also when the echoed prefix is empty.
C9_StreamedUsageIsGenerateUsage ==
    (call = "_stream" /\ pc = "done") =>
        StreamedUsage(yielded) = GenerateUsage(messages, parrot_buffer_length)

\* C10, as claimed: with a run_manager, on_llm_new_token is called once for
\* every chunk, before the chunk is yielded and in the order of the chunks,
\* with the content of the chunk as the token ("" for the metadata chunk);
\* without one no call is made and the chunks yielded are the same.
C10_CallbackPerChunk ==
    call = "_stream" =>
        /\ IF run_manager
           THEN /\ Len(callbacks) \in {Len(yielded), Len(yielded) + 1}
                /\ Finished => Len(callbacks) = Len(yielded)
                /\ \A i \in 1..Len(callbacks) :
                       /\ i <= Len(yielded) => callbacks[i].chunk = yielded[i]
                       /\ callbacks[i].token = callbacks[i].chunk.content
           ELSE callbacks = <<>>
        /\ pc = "done" =>
               yielded = StreamOf(messages, parrot_buffer_length, model_name)

\* C11, as claimed: _stream completes normally for every non-empty list of
\* messages, with or without a run_manager: it raises no error and ends by
\* yielding the metadata chunk, also when the echoed prefix is empty and the
\* loop runs zero times.
C11_StreamCompletes ==
    call = "_stream" =>
        /\ pc # "raised"
        /\ pc = "done" =>
               /\ yielded # <<>>
               /\ yielded[Len(yielded)] = FinalChunk(model_name)

\* C13, as claimed: the response metadata of the message _generate returns
\* is the response metadata of the chunks of _stream added up (same keys,
\* same values), and on both paths its model_name is the configured model
\* name, which _identifying_params returns too.
C13_SameResponseMetadata ==
    (call = "_stream" /\ pc = "done") =>
        LET streamed == SumChunks(yielded).response_metadata
            generated == GenerateResult(messages, parrot_buffer_length,
                                        model_name)[1].response_metadata
        IN  /\ <<"model_name", model_name>> \in streamed
            /\ <<"model_name", model_name>> \in generated
            /\ <<"model_name", model_name>> \in IdentifyingParams(model_name)
            /\ streamed = generated

\* where an occurrence of the stop string w in s ends, for every occurrence
EndsOf(w, s) ==
    {i + Len(w) - 1 : i \in {j \in 1..Len(s) : /\ j + Len(w) - 1 <= Len(s)
                                               /\ SubSeq(s, j, j + Len(w) - 1) = w}}

\* s up to the end of the first occurrence of a stop string of st, that
\* string included; s itself when st is None or none of its strings occurs
StoppedAt(s, st) ==
    LET ends == IF st = None THEN {}
                ELSE UNION {EndsOf(st.strings[i], s) : i \in DOMAIN st.strings}
    IN  IF ends = {} THEN s
        ELSE SubSeq(s, 1, CHOOSE e \in ends : \A f \in ends : e <= f)

\* C12, as claimed: with a stop list, when a stop string occurs in the text
\* that would be echoed, the output of _generate and of _stream ends at the
\* first occurrence, the stop string included; without one the output is the
\* plain echoed prefix.
C12_StopRespected ==
    LET echoed == PySlice(Last(messages), parrot_buffer_length)
    IN  /\ Generated => result[1].content = StoppedAt(echoed, stop)
        /\ (call = "_stream" /\ pc = "done") =>
               Concat(yielded) = StoppedAt(echoed, stop)

\* C14: _generate and _stream are stateless: no step of any call (invoke,
\* stream, batch, in any order and number) changes a field of the model
\* (model_name, parrot_buffer_length, temperature, max_tokens, timeout, stop,
\* max_retries) or the input message lists of the call in progress, so a call
\* with the same input as an earlier one of its kind returns the same content
\* and the same usage metadata, whatever calls happened in between.
C14_Stateless ==
    /\ [][/\ fields' = fields
           /\ (pc # "idle" /\ pc' # "idle") =>
                  /\ messages' = messages
                  /\ inputs' = inputs]_vars
    /\ [](memo # None =>
             /\ fields = memo.fields
             /\ (ProbeDone /\ call = memo.call) => Returned = memo.returned)

\* C14 witness: the probe is echoed again, after a call of another kind
\* has finished in between, with the fields of the first time
C14_Witness ==
    /\ memo # None
    /\ memo.between
    /\ ProbeDone
    /\ call = memo.call
    /\ call = "_generate"
    /\ Returned.content = << "a", "b" >>
    /\ Returned = memo.returned
    /\ max_retries = 2
====
